---- MODULE Spec2Model ----
(***************************************************************************)
(* Model of src/lab4.py: the career-roadmap bot.  A conversation (chat) is  *)
(* led through five questions by the FSM state kept in MemoryStorage; the  *)
(* fifth answer starts the generation, which calls YandexGPT and           *)
(* Hyperbolic concurrently (asyncio.gather) and sends one merged report.   *)
(*                                                                         *)
(* Every update is handled by its own asyncio task.  A task runs without   *)
(* interruption up to its next network await (message.answer, client.post);*)
(* MemoryStorage calls never suspend.  start_command and the first four    *)
(* answers are one action each; the handling of the fifth answer is one    *)
(* action per uninterrupted stretch, so that further updates interleave    *)
(* with a generation in flight.  Every network await may raise.            *)
(*                                                                         *)
(* Text is a sequence of tokens; " " is the whitespace token.              *)
(***************************************************************************)
EXTENDS Integers, Sequences, FiniteSets, TLC

VARIABLES state, data, tasks, lastSent, msgs, fmt, since

vars == <<state, data, tasks, lastSent, msgs, fmt, since>>

-----------------------------------------------------------------------------
(* Bounds of the model *)

MaxMsgs == 7
MaxTasks == 2

-----------------------------------------------------------------------------
(* Python values: Optional[str], and the non-string a JSON field may hold *)

None == [tag |-> "None", val |-> <<>>]

Str(s) == [tag |-> "str", val |-> s]

NonStr == [tag |-> "int", val |-> <<>>]

Truthy(v) == \/ v.tag = "int"
             \/ v.tag = "str" /\ v.val # <<>>

RECURSIVE lstrip(_)
lstrip(s) == IF s # <<>> /\ Head(s) = " " THEN lstrip(Tail(s)) ELSE s

RECURSIVE rstrip(_)
rstrip(s) == IF s # <<>> /\ s[Len(s)] = " " THEN rstrip(SubSeq(s, 1, Len(s) - 1)) ELSE s

stripLeftOnly(s) == lstrip(s)

strip(s) == rstrip(lstrip(s))

-----------------------------------------------------------------------------
(* Form, _STATE_ORDER, _QUESTIONS *)

_STATE_ORDER == <<"profession", "experience", "goals", "skills", "preferences">>

Fields == {_STATE_ORDER[i] : i \in 1..Len(_STATE_ORDER)}

NoState == <<>>

Form(name) == <<"Form", name>>

FormStates == {Form(n) : n \in Fields}

_QUESTIONS == [n \in Fields |-> <<"question", n>>]

index(name) == CHOOSE i \in 1..Len(_STATE_ORDER) : _STATE_ORDER[i] = name

NextStateNameSkip(state_name) ==
    IF state_name \notin Fields THEN ""
    ELSE IF index(state_name) + 2 <= Len(_STATE_ORDER)
         THEN _STATE_ORDER[index(state_name) + 2] ELSE ""

NextStateNameStay(state_name) == IF state_name \notin Fields THEN "" ELSE state_name

\* lines 235-239: the name of the following state, "" for None
NextStateName(state_name) ==
    IF state_name \notin Fields THEN ""
    ELSE IF index(state_name) + 1 <= Len(_STATE_ORDER)
         THEN _STATE_ORDER[index(state_name) + 1] ELSE ""

-----------------------------------------------------------------------------
(* The prompt and the report *)

get(d, k) == IF k \in DOMAIN d THEN d[k] ELSE <<"-">>

_build_prompt(d) == [i \in 1..Len(_STATE_ORDER) |-> get(d, _STATE_ORDER[i])]

WrapPrompt(base_prompt) == <<"wrap", base_prompt>>

FallbackYandex == <<"no_main_roadmap">>

FallbackHyperbolic == <<"no_extra_recommendations">>

safeNoStrip(text, default) ==
    IF Truthy(text)
    THEN IF text.tag = "str" THEN [raised |-> FALSE, val |-> text.val]
         ELSE [raised |-> TRUE, val |-> <<>>]
    ELSE [raised |-> FALSE, val |-> default]

safeInverted(text, default) ==
    IF ~Truthy(text)
    THEN IF text.tag = "str" THEN [raised |-> FALSE, val |-> strip(text.val)]
         ELSE [raised |-> TRUE, val |-> <<>>]
    ELSE [raised |-> FALSE, val |-> default]

\* text.strip() if text else default; a truthy non-string has no strip()
safe(text, default) ==
    IF Truthy(text)
    THEN IF text.tag = "str" THEN [raised |-> FALSE, val |-> strip(text.val)]
         ELSE [raised |-> TRUE, val |-> <<>>]
    ELSE [raised |-> FALSE, val |-> default]

NoReport == [raised |-> FALSE, sections |-> <<>>]

_format_responses(yandex, hyperbolic) ==
    LET y == safe(yandex, FallbackYandex)
        h == safe(hyperbolic, FallbackHyperbolic)
    IN IF y.raised \/ h.raised
       THEN [raised |-> TRUE, sections |-> <<>>]
       ELSE [raised |-> FALSE,
             sections |-> << [label |-> "yandex", text |-> y.val],
                             [label |-> "hyperbolic", text |-> h.val] >>]

-----------------------------------------------------------------------------
(* The providers: what generate_roadmap / generate_analysis return for an  *)
(* HTTP outcome.  kind "error": client.post raised (transport, timeout);   *)
(* "status": raise_for_status raised; "nopath": the body is not JSON or    *)
(* lacks the path to the text; "text": the value found at the path.        *)

Http(kind, value) == [kind |-> kind, value |-> value]

generate_roadmap(http) == IF http.kind = "text" THEN http.value ELSE None

generate_analysis(http) == IF http.kind = "text" THEN http.value ELSE None

-----------------------------------------------------------------------------
(* Inputs *)

Chats == {"u1", "u2"}

AnswerTexts == { <<" ", "x", " ">> }

ProviderValues == { None, NonStr, Str(<<" ", "x", " ">>) }

Responses == { Http("error", None), Http("status", None), Http("nopath", None) }
             \cup { Http("text", v) : v \in ProviderValues }

-----------------------------------------------------------------------------
(* State *)
(* state, data: the FSM state and the answers MemoryStorage keeps per chat *)
(* tasks: the handlings of a fifth answer in flight, in order of arrival   *)
(* lastSent: the last message delivered, and the chat it went to           *)
(* msgs: the number of updates received                                    *)
(* since: history, per chat: the texts received as answers and the number *)
(* of generations begun (gather reached) since the last start handled     *)

EmptyDict == [k \in {} |-> <<>>]

SetItem(d, k, v) == [x \in (DOMAIN d) \cup {k} |-> IF x = k THEN v ELSE d[x]]

Msg(c, kind, arg) == [chat |-> c, kind |-> kind, arg |-> arg]

\* posts: the number of client.post calls made for this provider
NoCall == [st |-> "none", prompt |-> <<>>, resp |-> None, posts |-> 0]

NoCalls == [yandex |-> NoCall, hyperbolic |-> NoCall]

NewTask(c) ==
    [chat |-> c, pc |-> "notice", user_data |-> EmptyDict, calls |-> NoCalls,
     report |-> NoReport, caught |-> "", exc |-> ""]

NoneSince == [answers |-> EmptyDict, dispatched |-> 0]

FmtOff == [stage |-> "off", y |-> Http("error", None), h |-> Http("error", None),
           yandex |-> None, hyperbolic |-> None, out |-> NoReport]

Init ==
    /\ state = [c \in Chats |-> NoState]
    /\ data = [c \in Chats |-> EmptyDict]
    /\ tasks = <<>>
    /\ lastSent = Msg("", "none", <<>>)
    /\ msgs = 0
    /\ fmt = FmtOff
    /\ since = [c \in Chats |-> NoneSince]

Running == 1..Len(tasks)

\* the handler returns or raises: its task is over
End(i) == tasks' = [j \in 1..(Len(tasks) - 1) |-> IF j < i THEN tasks[j] ELSE tasks[j + 1]]

Continue(i, t2) == tasks' = [tasks EXCEPT ![i] = t2]

Answer(c, kind, arg) == lastSent' = Msg(c, kind, arg)

\* the state filter of process_answer's registration
StateFilter(s) == s \in FormStates

finishAll(c) ==
    /\ state' = [d \in Chats |-> NoState]
    /\ data' = [d \in Chats |-> EmptyDict]

\* FSMContext.finish(): the state and the data of the chat are reset
finish(c) ==
    /\ state' = [state EXCEPT ![c] = NoState]
    /\ data' = [data EXCEPT ![c] = EmptyDict]

-----------------------------------------------------------------------------
(* start_command and _ask_question *)

_ask_questionFirst(c, name, ok) ==
    /\ state' = [state EXCEPT ![c] = Form(name)]
    /\ IF ok THEN Answer(c, "question", _QUESTIONS[_STATE_ORDER[1]]) ELSE UNCHANGED lastSent

\* state.set(), then the question is sent (ok) or its sending raises
_ask_question(c, name, ok) ==
    /\ state' = [state EXCEPT ![c] = Form(name)]
    /\ IF ok THEN Answer(c, "question", _QUESTIONS[name]) ELSE UNCHANGED lastSent

\* "/start" in any state: the welcome message is sent or its sending raises
\* out of the handler; then _ask_question(Form.profession): when the
\* question is not delivered, the welcome message stays the last one
start_command(c, welcome_ok, ok) ==
    /\ msgs < MaxMsgs
    /\ msgs' = msgs + 1
    /\ IF welcome_ok
       THEN IF ok
            THEN _ask_question(c, _STATE_ORDER[1], TRUE)
            ELSE /\ state' = [state EXCEPT ![c] = Form(_STATE_ORDER[1])]
                 /\ Answer(c, "welcome", <<>>)
       ELSE UNCHANGED <<state, lastSent>>
    /\ since' = IF welcome_ok THEN [since EXCEPT ![c] = NoneSince] ELSE since
    /\ UNCHANGED <<data, tasks, fmt>>

-----------------------------------------------------------------------------
(* process_answer *)

process_answerAnyState(c, text, ok) ==
    /\ msgs < MaxMsgs
    /\ msgs' = msgs + 1
    /\ LET state_name == IF state[c] = NoState THEN _STATE_ORDER[1] ELSE state[c][2]
           next_state_name == NextStateName(state_name)
       IN /\ data' = [data EXCEPT ![c] = SetItem(data[c], state_name, strip(text))]
          /\ since' = [since EXCEPT ![c].answers = SetItem(@, state_name, text)]
          /\ IF next_state_name # ""
             THEN /\ _ask_question(c, next_state_name, ok)
                  /\ UNCHANGED tasks
             ELSE /\ Len(tasks) < MaxTasks
                  /\ tasks' = Append(tasks, NewTask(c))
                  /\ UNCHANGED <<state, lastSent>>
    /\ UNCHANGED fmt

\* a text message arrives: no handler when the state filter rejects it;
\* else the answer is stored and either the next question is asked or
\* _generate_and_send_roadmap runs up to the await of its notice
process_answer(c, text, ok) ==
    /\ msgs < MaxMsgs
    /\ msgs' = msgs + 1
    /\ IF StateFilter(state[c]) /\ state[c] # NoState
       THEN LET state_name == state[c][2]
                next_state_name == NextStateName(state_name)
            IN /\ data' = [data EXCEPT ![c] = SetItem(data[c], state_name, strip(text))]
               /\ since' = [since EXCEPT ![c].answers = SetItem(@, state_name, text)]
               /\ IF next_state_name # ""
                  THEN /\ _ask_question(c, next_state_name, ok)
                       /\ UNCHANGED tasks
                  ELSE /\ Len(tasks) < MaxTasks
                       /\ tasks' = Append(tasks, NewTask(c))
                       /\ UNCHANGED <<state, lastSent>>
       ELSE UNCHANGED <<state, data, tasks, lastSent, since>>
    /\ UNCHANGED fmt

-----------------------------------------------------------------------------
(* _generate_and_send_roadmap *)

CanStartAfterOther(p, calls) ==
    \/ p = "yandex"
    \/ p = "hyperbolic" /\ calls.yandex.st = "done"

\* gather() schedules both coroutines: neither waits for the other
CanStart(p, calls) == TRUE

\* the scheduled coroutines run up to their client.post; YandexGPT's
\* payload is built there, from the same snapshot
Started(calls, user_data) ==
    [p \in {"yandex", "hyperbolic"} |->
        IF calls[p].st = "scheduled" /\ CanStart(p, calls)
        THEN [calls[p] EXCEPT
                !.st = "inflight",
                !.posts = @ + 1,
                !.prompt = IF p = "yandex" THEN _build_prompt(user_data) ELSE @]
        ELSE calls[p]]

\* line 248: the notice is sent or its sending raises, outside the try.
\* Then, in the try: the snapshot of the answers, the base prompt, and
\* gather() of the two provider coroutines
_generate_and_send_roadmap(i, ok) ==
    LET t == tasks[i] IN
    /\ t.pc = "notice"
    /\ IF ok
       THEN LET user_data == data[t.chat]
                base_prompt == _build_prompt(user_data)
                scheduled == [yandex |-> [NoCall EXCEPT !.st = "scheduled"],
                              hyperbolic |-> [NoCall EXCEPT
                                                !.st = "scheduled",
                                                !.prompt = WrapPrompt(base_prompt)]]
            IN /\ Answer(t.chat, "notice", <<>>)
               /\ since' = [since EXCEPT ![t.chat].dispatched = @ + 1]
               /\ Continue(i, [t EXCEPT !.pc = "gather",
                                        !.user_data = user_data,
                                        !.calls = Started(scheduled, user_data)])
       ELSE /\ End(i)
            /\ UNCHANGED <<lastSent, since>>
    /\ UNCHANGED <<state, data, msgs, fmt>>

GatherReadyAny(calls) == calls.yandex.st = "done" \/ calls.hyperbolic.st = "done"

\* await asyncio.gather(...): both coroutines have returned
GatherReady(calls) == calls.yandex.st = "done" /\ calls.hyperbolic.st = "done"

CatchesOnlyFormat(e) == e = "format"

\* except Exception: every error of the try block
Catches(e) == TRUE

\* the finally clause: state.finish(), then the closing message is awaited;
\* the locals of the try block are dead from here on
Finally(i, exc) ==
    /\ finish(tasks[i].chat)
    /\ Continue(i, [tasks[i] EXCEPT !.pc = "final", !.exc = exc,
                                    !.user_data = EmptyDict, !.calls = NoCalls,
                                    !.report = NoReport])

\* an error e in the try block: to the except clause, which awaits the
\* generic message; an error not caught goes through the finally clause
Except(i, t, e) ==
    IF Catches(e)
    THEN /\ Continue(i, [t EXCEPT !.pc = "generic", !.caught = e])
         /\ UNCHANGED <<state, data>>
    ELSE Finally(i, e)

\* line 261, once gather has returned: the report is formatted and its
\* sending awaited
Resume(i, t) ==
    LET r == _format_responses(t.calls.yandex.resp, t.calls.hyperbolic.resp)
    IN IF r.raised
       THEN Except(i, t, "format")
       ELSE /\ Continue(i, [t EXCEPT !.pc = "report", !.report = r])
            /\ UNCHANGED <<state, data>>

RetriesOnFailure(resp) == resp = None

\* lines 117-119, 162-164: the except clause returns None; no loop leads
\* back to client.post
Retries(resp) == FALSE

\* the HTTP call of provider p ends and its coroutine returns resp; the
\* handler goes on when gather has all it waits for
ProviderDone(i, p, resp) ==
    LET t == tasks[i]
        returned == IF Retries(resp)
                    THEN [t.calls EXCEPT ![p].st = "scheduled"]
                    ELSE [t.calls EXCEPT ![p].st = "done", ![p].resp = resp]
        t2 == [t EXCEPT !.calls = Started(returned, t.user_data)]
    IN
    /\ t.pc = "gather"
    /\ t.calls[p].st = "inflight"
    /\ IF GatherReady(t2.calls)
       THEN Resume(i, t2)
       ELSE /\ Continue(i, t2)
            /\ UNCHANGED <<state, data>>
    /\ UNCHANGED <<lastSent, msgs, fmt, since>>

yandex_done(i, http) == ProviderDone(i, "yandex", generate_roadmap(http))

hyperbolic_done(i, http) == ProviderDone(i, "hyperbolic", generate_analysis(http))

\* the report is sent, or its sending raises
report_sent(i, ok) ==
    LET t == tasks[i] IN
    /\ t.pc = "report"
    /\ IF ok
       THEN /\ Answer(t.chat, "report", t.report.sections)
            /\ Finally(i, "")
       ELSE /\ Except(i, t, "report_send")
            /\ UNCHANGED lastSent
    /\ UNCHANGED <<msgs, fmt, since>>

\* line 264: the generic message is sent, or its sending raises out of the
\* except clause; then the finally clause
generic_sent(i, ok) ==
    LET t == tasks[i] IN
    /\ t.pc = "generic"
    /\ IF ok
       THEN /\ Answer(t.chat, "generic_error", <<>>)
            /\ Finally(i, "")
       ELSE /\ Finally(i, "generic_send")
            /\ UNCHANGED lastSent
    /\ UNCHANGED <<msgs, fmt, since>>

\* lines 266-270: the closing message is sent, or its error suppressed;
\* the handler ends, raising what the except clause raised
final_sent(i, ok) ==
    LET t == tasks[i] IN
    /\ t.pc = "final"
    /\ IF ok
       THEN Answer(t.chat, "done", <<>>)
       ELSE UNCHANGED lastSent
    /\ End(i)
    /\ UNCHANGED <<state, data, msgs, fmt, since>>

-----------------------------------------------------------------------------

Next ==
    \/ \E c \in Chats, welcome_ok \in BOOLEAN, ok \in BOOLEAN : start_command(c, welcome_ok, ok)
    \/ \E c \in Chats, text \in AnswerTexts, ok \in BOOLEAN : process_answer(c, text, ok)
    \/ \E i \in Running, ok \in BOOLEAN : _generate_and_send_roadmap(i, ok)
    \/ \E i \in Running, http \in Responses : yandex_done(i, http)
    \/ \E i \in Running, http \in Responses : hyperbolic_done(i, http)
    \/ \E i \in Running, ok \in BOOLEAN : report_sent(i, ok)
    \/ \E i \in Running, ok \in BOOLEAN : generic_sent(i, ok)
    \/ \E i \in Running, ok \in BOOLEAN : final_sent(i, ok)

Spec == Init /\ [][Next]_vars

-----------------------------------------------------------------------------
(* The merge of two provider results on its own: every pair of HTTP        *)
(* outcomes, through generate_roadmap / generate_analysis and              *)
(* _format_responses                                                       *)

FormatTexts == { <<>>, <<" ">>, <<"x">>, <<" ", "x", " ">>, <<"x", " ", "y">>,
                 FallbackYandex, <<" ">> \o FallbackHyperbolic }

FormatResponses ==
    { Http("error", None), Http("status", None), Http("nopath", None),
      Http("text", None), Http("text", NonStr) }
    \cup { Http("text", Str(s)) : s \in FormatTexts }

InitFormat ==
    /\ state = [c \in Chats |-> NoState]
    /\ data = [c \in Chats |-> EmptyDict]
    /\ tasks = <<>>
    /\ lastSent = Msg("", "none", <<>>)
    /\ msgs = 0
    /\ since = [c \in Chats |-> NoneSince]
    /\ \E y \in FormatResponses, h \in FormatResponses :
          fmt = [FmtOff EXCEPT !.stage = "in", !.y = y, !.h = h]

\* both provider coroutines return
FormatGenerate ==
    /\ fmt.stage = "in"
    /\ fmt' = [fmt EXCEPT !.stage = "returned",
                          !.yandex = generate_roadmap(fmt.y),
                          !.hyperbolic = generate_analysis(fmt.h)]
    /\ UNCHANGED <<state, data, tasks, lastSent, msgs, since>>

\* the argument of line 261
FormatMerge ==
    /\ fmt.stage = "returned"
    /\ fmt' = [fmt EXCEPT !.stage = "out",
                          !.out = _format_responses(fmt.yandex, fmt.hyperbolic)]
    /\ UNCHANGED <<state, data, tasks, lastSent, msgs, since>>

NextFormat == FormatGenerate \/ FormatMerge

SpecFormat == InitFormat /\ [][NextFormat]_vars

-----------------------------------------------------------------------------
(* The answers on their own: each chat sends its own texts, one of them     *)
(* whitespace only; every message is delivered and the providers answer    *)
(* with a text or fail.  The run begins when chat u2 has started and has   *)
(* given its first answer, and msgs counts the updates from there on.      *)

ChatTexts == [c \in Chats |-> IF c = "u1" THEN { <<" ">>, <<" ", "x", " ">> }
                                          ELSE { <<"y", " ">> }]

AnswerResponses == { Http("error", None), Http("text", Str(<<"r">>)) }

InitAnswers ==
    /\ state = [c \in Chats |-> IF c = "u2" THEN Form(_STATE_ORDER[2]) ELSE NoState]
    /\ data = [c \in Chats |->
                 IF c = "u2" THEN SetItem(EmptyDict, _STATE_ORDER[1], strip(<<"y", " ">>))
                 ELSE EmptyDict]
    /\ tasks = <<>>
    /\ lastSent = Msg("u2", "question", _QUESTIONS[_STATE_ORDER[2]])
    /\ msgs = 0
    /\ fmt = FmtOff
    /\ since = [c \in Chats |->
                  IF c = "u2"
                  THEN [NoneSince EXCEPT !.answers = SetItem(EmptyDict, _STATE_ORDER[1], <<"y", " ">>)]
                  ELSE NoneSince]

NextAnswers ==
    \/ \E c \in Chats : start_command(c, TRUE, TRUE)
    \/ \E c \in Chats : \E text \in ChatTexts[c] : process_answer(c, text, TRUE)
    \/ \E i \in Running : _generate_and_send_roadmap(i, TRUE)
    \/ \E i \in Running, http \in AnswerResponses : yandex_done(i, http)
    \/ \E i \in Running, http \in AnswerResponses : hyperbolic_done(i, http)
    \/ \E i \in Running : report_sent(i, TRUE)
    \/ \E i \in Running : final_sent(i, TRUE)

SpecAnswers == InitAnswers /\ [][NextAnswers]_vars

-----------------------------------------------------------------------------
(* Properties *)

\* the position of an FSM state in _STATE_ORDER, 0 for no state
Step(s) == IF s = NoState THEN 0 ELSE index(s[2])

Last == Len(_STATE_ORDER)

FieldsBefore(s) == IF s = NoState THEN Fields ELSE {_STATE_ORDER[j] : j \in 1..(Step(s) - 1)}

Idle(c) == \A i \in Running : tasks[i].chat # c

\* the handler of task i is over after this step
Ends(i) == tasks' = [j \in 1..(Len(tasks) - 1) |-> IF j < i THEN tasks[j] ELSE tasks[j + 1]]

C2_StartResets ==
    [][\A c \in Chats, ok \in BOOLEAN :
          start_command(c, TRUE, ok) =>
              state'[c] = Form("profession") /\ data'[c] = EmptyDict]_vars

\* C3: when no handler of a session is in flight, its answers hold entries
\* only for fields before its current step.
C3_AnswersBeforeStep ==
    \A c \in Chats : Idle(c) => DOMAIN data[c] \subseteq FieldsBefore(state[c])

\* C4: the handling of a last answer ends only after its finally clause,
\* and that clause leaves the session with no state and no answers.
C4_SessionCleanup ==
    [][\A i \in Running :
          /\ Ends(i) => tasks[i].pc = "final"
          /\ (tasks[i].pc # "final" /\ Len(tasks') = Len(tasks) /\ tasks'[i].pc = "final")
                => state'[tasks[i].chat] = NoState /\ data'[tasks[i].chat] = EmptyDict]_vars

\* C5: a handler is past gather (sending the report or the generic
\* message) only when both provider calls have finished; while one is
\* pending it is still at gather.
C5_WaitsForBoth ==
    \A i \in Running :
        /\ tasks[i].pc \in {"report", "generic"} =>
              tasks[i].calls.yandex.st = "done" /\ tasks[i].calls.hyperbolic.st = "done"
        /\ tasks[i].pc = "gather" =>
              tasks[i].calls.yandex.st # "done" \/ tasks[i].calls.hyperbolic.st # "done"

\* YandexGPT has failed, Hyperbolic has returned text, and the report is
\* being sent
C5_Witness ==
    \E i \in Running :
        /\ tasks[i].pc = "report"
        /\ tasks[i].calls.yandex.resp = None
        /\ tasks[i].calls.hyperbolic.resp.tag = "str"

\* what the claims call a failed provider, or one that returned no text
NoText(http) == http.kind # "text" \/ http.value = None \/ http.value = Str(<<>>)

IsText(http) == http.kind = "text" /\ http.value.tag = "str"

FallbackTokens == {FallbackYandex[1], FallbackHyperbolic[1]}

Occurrences(s) == Cardinality({j \in 1..Len(s) : s[j] \in FallbackTokens})

\* the number of fallback strings in a report
Fallbacks(r) == Occurrences(r.sections[1].text) + Occurrences(r.sections[2].text)

\* C6 (original): the section of a provider holds the fallback exactly when
\* the provider failed or returned no text, and else the returned text.
C6_SectionVerbatim ==
    (fmt.stage = "out" /\ ~fmt.out.raised) =>
        /\ fmt.out.sections[1].label = "yandex"
        /\ fmt.out.sections[2].label = "hyperbolic"
        /\ (fmt.out.sections[1].text = FallbackYandex) <=> NoText(fmt.y)
        /\ (fmt.out.sections[2].text = FallbackHyperbolic) <=> NoText(fmt.h)
        /\ ~NoText(fmt.y) => fmt.out.sections[1].text = fmt.y.value.val
        /\ ~NoText(fmt.h) => fmt.out.sections[2].text = fmt.h.value.val

\* C6 (amended): in every report the YandexGPT section is first; the
\* section of a provider holds the fallback when the provider failed or
\* returned no text, and else the returned text without its leading and
\* trailing whitespace.
C6_SectionTrimmed ==
    (fmt.stage = "out" /\ ~fmt.out.raised) =>
        /\ fmt.out.sections[1].label = "yandex"
        /\ fmt.out.sections[2].label = "hyperbolic"
        /\ fmt.out.sections[1].text =
              IF NoText(fmt.y) THEN FallbackYandex ELSE strip(fmt.y.value.val)
        /\ fmt.out.sections[2].text =
              IF NoText(fmt.h) THEN FallbackHyperbolic ELSE strip(fmt.h.value.val)

\* YandexGPT failed and Hyperbolic returned text with whitespace around it
C6_Witness ==
    /\ fmt.stage = "out"
    /\ fmt.y.kind = "status"
    /\ fmt.h = Http("text", Str(<<" ", "x", " ">>))
    /\ fmt.out.sections[1].text = FallbackYandex
    /\ fmt.out.sections[2].text = <<"x">>

\* C7 (original): two responses with a text field give a report without
\* fallback strings.
C7_NoFallbackAnyText ==
    (fmt.stage = "out" /\ IsText(fmt.y) /\ IsText(fmt.h)) =>
        ~fmt.out.raised /\ Fallbacks(fmt.out) = 0

\* C7 (amended): two responses with a non-empty text that holds no fallback
\* string give a report without fallback strings.
C7_NoFallbackNonEmpty ==
    (/\ fmt.stage = "out"
     /\ IsText(fmt.y) /\ fmt.y.value.val # <<>> /\ Occurrences(fmt.y.value.val) = 0
     /\ IsText(fmt.h) /\ fmt.h.value.val # <<>> /\ Occurrences(fmt.h.value.val) = 0) =>
        ~fmt.out.raised /\ Fallbacks(fmt.out) = 0

\* both providers returned text, one of them only whitespace
C7_Witness ==
    /\ fmt.stage = "out"
    /\ fmt.y = Http("text", Str(<<" ">>))
    /\ fmt.h = Http("text", Str(<<"x", " ", "y">>))
    /\ ~fmt.out.raised
    /\ Fallbacks(fmt.out) = 0

\* a provider call that gave no text: an error, a bad status, a malformed
\* body
Failed(call) == call.st = "done" /\ call.resp.tag # "str"

TwoFallbacks ==
    << [label |-> "yandex", text |-> FallbackYandex],
       [label |-> "hyperbolic", text |-> FallbackHyperbolic] >>

\* C8: after two failed provider calls the handler sends the report with
\* the two fallbacks; it is at the generic message only when the sending of
\* that report has failed.
C8_FailuresAbsorbed ==
    \A i \in Running :
        (/\ tasks[i].pc \in {"gather", "report", "generic"}
         /\ Failed(tasks[i].calls.yandex) /\ Failed(tasks[i].calls.hyperbolic)) =>
            \/ tasks[i].pc = "report" /\ tasks[i].report.sections = TwoFallbacks
            \/ tasks[i].pc = "generic" /\ tasks[i].caught = "report_send"

TryErrors == {"format", "report_send"}

C10_Concurrent ==
    \A i \in Running :
        tasks[i].pc = "gather" =>
            /\ tasks[i].calls.yandex.st \in {"inflight", "done"}
            /\ tasks[i].calls.hyperbolic.st \in {"inflight", "done"}

\* both calls are in flight at once
C10_Witness ==
    \E i \in Running :
        /\ tasks[i].pc = "gather"
        /\ tasks[i].calls.yandex.st = "inflight"
        /\ tasks[i].calls.hyperbolic.st = "inflight"

-----------------------------------------------------------------------------
(* The answers, the snapshot and the sessions *)

FieldOf(s) == _STATE_ORDER[Step(s)]

\* C11: whatever the text of an answer, whitespace only included, the
\* answer at step k < 5 puts the session at step k + 1 and starts no
\* generation, and the answer at step 5 starts the generation of that chat
\* and sets no other step.
C11_NextByIndex ==
    [][\A c \in Chats : \A text \in ChatTexts[c] :
          (process_answer(c, text, TRUE) /\ Step(state[c]) >= 1) =>
              IF Step(state[c]) < Last
              THEN /\ state'[c] = Form(_STATE_ORDER[Step(state[c]) + 1])
                   /\ tasks' = tasks
              ELSE /\ state'[c] = state[c]
                   /\ tasks' = Append(tasks, NewTask(c))]_vars

\* a whitespace-only answer to the second question has moved the session
\* to the third
C11_Witness ==
    /\ state["u1"] = Form("goals")
    /\ DOMAIN since["u1"].answers = {"profession", "experience"}
    /\ since["u1"].answers["profession"] = <<" ", "x", " ">>
    /\ since["u1"].answers["experience"] = <<" ">>

\* C12: when the generation takes its snapshot, the snapshot holds the five
\* fields, each the trimmed text last received for the field since the last
\* start of the chat, and both prompts are built from that snapshot.
C12_SnapshotComplete ==
    [][\A i \in Running :
          _generate_and_send_roadmap(i, TRUE) =>
              LET c == tasks[i].chat
                  snap == tasks'[i].user_data
              IN /\ DOMAIN snap = Fields
                 /\ DOMAIN since[c].answers = Fields
                 /\ \A f \in Fields : snap[f] = strip(since[c].answers[f])
                 /\ tasks'[i].calls.yandex.prompt = _build_prompt(snap)
                 /\ tasks'[i].calls.hyperbolic.prompt = WrapPrompt(_build_prompt(snap))]_vars

Providers == {"yandex", "hyperbolic"}

\* C13: a provider is posted to at most once in a generation, exactly once
\* when its call is in flight or has returned, and the handler is past
\* gather with exactly one post to each provider.
C13_CalledOnce ==
    \A i \in Running : \A p \in Providers :
        /\ tasks[i].calls[p].posts <= 1
        /\ tasks[i].calls[p].st \in {"inflight", "done"} => tasks[i].calls[p].posts = 1
        /\ tasks[i].pc \in {"report", "generic"} => tasks[i].calls[p].posts = 1

\* both calls have failed, each after one post, and the report is being sent
C13_Witness ==
    \E i \in Running :
        /\ tasks[i].pc = "report"
        /\ \A p \in Providers :
              /\ tasks[i].calls[p].st = "done"
              /\ tasks[i].calls[p].resp = None
              /\ tasks[i].calls[p].posts = 1

\* C14: a text message for a chat without state (never started, or reset by
\* the finally clause) changes no state, stores no answer, sends no message
\* and starts no generation.
C14_NoSessionNoOp ==
    [][\A c \in Chats : \A text \in AnswerTexts, ok \in BOOLEAN :
          (process_answer(c, text, ok) /\ state[c] = NoState) =>
              UNCHANGED <<state, data, tasks, lastSent, since>>]_vars

\* the form of u2 was filled, its generation is over and the session reset,
\* and one more update has been received
C14_Witness ==
    /\ msgs = 7
    /\ tasks = <<>>
    /\ state["u2"] = NoState /\ data["u2"] = EmptyDict
    /\ DOMAIN since["u2"].answers = Fields
    /\ since["u2"].dispatched = 1
    /\ lastSent = Msg("u2", "done", <<>>)

\* C15 (original): after a start or an answer at a step before the last has
\* been handled, the last message of the chat is the question of its new
\* step.
C15_PromptAlways ==
    [][\A c \in Chats : \A ok \in BOOLEAN :
          /\ start_command(c, TRUE, ok) =>
                lastSent' = Msg(c, "question", _QUESTIONS[FieldOf(state'[c])])
          /\ \A text \in AnswerTexts :
                (process_answer(c, text, ok) /\ Step(state[c]) \in 1..(Last - 1)) =>
                   lastSent' = Msg(c, "question", _QUESTIONS[FieldOf(state'[c])])]_vars

\* C15 (amended): a start, or an answer at step k < 5, whose question is
\* delivered leaves the question of the new step (profession, or step
\* k + 1) as the last message of the chat; when the sending of the question
\* raises, the session is at the new step all the same and no question of
\* that step has been sent.
C15_PromptOfNewStep ==
    [][\A c \in Chats :
          /\ start_command(c, TRUE, TRUE) =>
                /\ state'[c] = Form("profession")
                /\ lastSent' = Msg(c, "question", <<"question", "profession">>)
          /\ start_command(c, TRUE, FALSE) =>
                /\ state'[c] = Form("profession")
                /\ lastSent' = Msg(c, "welcome", <<>>)
          /\ \A text \in AnswerTexts, ok \in BOOLEAN :
                (process_answer(c, text, ok) /\ Step(state[c]) \in 1..(Last - 1)) =>
                   /\ state'[c] = Form(_STATE_ORDER[Step(state[c]) + 1])
                   /\ lastSent' = IF ok
                                  THEN Msg(c, "question",
                                           <<"question", _STATE_ORDER[Step(state[c]) + 1]>>)
                                  ELSE lastSent]_vars

\* the second answer has been handled and the third question delivered
C15_Witness ==
    /\ state["u1"] = Form("goals")
    /\ DOMAIN data["u1"] = {"profession", "experience"}
    /\ lastSent = Msg("u1", "question", <<"question", "goals">>)

\* r is text without the whitespace at its two ends
IsTrimOf(r, text) ==
    \E i \in 0..Len(text), j \in 0..Len(text) :
        /\ i + j <= Len(text)
        /\ r = SubSeq(text, i + 1, Len(text) - j)
        /\ \A k \in 1..i : text[k] = " "
        /\ \A k \in (Len(text) - j + 1)..Len(text) : text[k] = " "
        /\ r = <<>> \/ (r[1] # " " /\ r[Len(r)] # " ")

\* C16: an answer handled at a step stores the trimmed text under the field
\* of that step and leaves the answers of the other fields as they were; a
\* whitespace-only answer is stored as the empty text and moves the session
\* on like any other answer.
C16_StoresTrimmed ==
    [][\A c \in Chats : \A text \in ChatTexts[c] :
          (process_answer(c, text, TRUE) /\ Step(state[c]) >= 1) =>
              LET f == FieldOf(state[c]) IN
              /\ DOMAIN data'[c] = DOMAIN data[c] \cup {f}
              /\ IsTrimOf(data'[c][f], text)
              /\ \A g \in DOMAIN data[c] \ {f} : data'[c][g] = data[c][g]
              /\ text = <<" ">> => data'[c][f] = <<>>
              /\ \/ Step(state[c]) < Last /\ Step(state'[c]) = Step(state[c]) + 1
                 \/ Step(state[c]) = Last /\ Len(tasks') = Len(tasks) + 1]_vars

\* a whitespace-only first answer is stored as the empty text, the second
\* answer is stored trimmed, and the session is at the third step
C16_Witness ==
    /\ state["u1"] = Form("goals")
    /\ data["u1"] = SetItem(SetItem(EmptyDict, "profession", <<>>), "experience", <<"x">>)
    /\ since["u1"].answers =
          SetItem(SetItem(EmptyDict, "profession", <<" ">>), "experience", <<" ", "x", " ">>)

OthersUnchanged(c) == \A d \in Chats \ {c} : state'[d] = state[d] /\ data'[d] = data[d]

\* the texts a chat can have stored, and those only another chat can
Own(c) == {strip(t) : t \in ChatTexts[c]}

Foreign(c) == UNION {Own(d) : d \in Chats \ {c}} \ Own(c)

Values(d) == {d[f] : f \in DOMAIN d}

PromptValues(prompt) == {prompt[k] : k \in 1..Len(prompt)}

\* C17: a start, an answer or a step of a generation of one chat leaves the
\* state and the answers of every other chat unchanged; the answers stored
\* for a chat, the snapshot of its generation and the prompts built from it
\* hold no text that only another chat has sent.
C17_Isolated ==
    /\ [](\A c \in Chats :
            /\ Values(data[c]) \cap Foreign(c) = {}
            /\ \A i \in Running :
                  tasks[i].chat = c =>
                     /\ Values(tasks[i].user_data) \cap Foreign(c) = {}
                     /\ PromptValues(tasks[i].calls.yandex.prompt) \cap Foreign(c) = {}
                     /\ tasks[i].calls.hyperbolic.prompt # <<>> =>
                           PromptValues(tasks[i].calls.hyperbolic.prompt[2]) \cap Foreign(c) = {})
    /\ [][/\ \A c \in Chats :
               /\ start_command(c, TRUE, TRUE) => OthersUnchanged(c)
               /\ \A text \in ChatTexts[c] : process_answer(c, text, TRUE) => OthersUnchanged(c)
          /\ \A i \in Running :
               (Ends(i) \/ (Len(tasks') = Len(tasks) /\ tasks'[i] # tasks[i]))
                  => OthersUnchanged(tasks[i].chat)]_vars

\* the generation of u1 holds its snapshot while u2, which answered before
\* and in between, is in the middle of its form
C17_Witness ==
    \E i \in Running :
        /\ tasks[i].chat = "u1"
        /\ tasks[i].pc = "gather"
        /\ DOMAIN tasks[i].user_data = Fields
        /\ Values(tasks[i].user_data) \subseteq Own("u1")
        /\ state["u2"] = Form("goals")
        /\ Values(data["u2"]) = Own("u2")

\* C18: no chat has more than one generation begun since its last start.
C18_OneDispatch == \A c \in Chats : since[c].dispatched <= 1

\* C19: when the finally clause of a generation runs in a chat that was
\* started again after that generation began and is at profession, the chat
\* is still at profession afterwards.
C19_StartKept ==
    [][\A i \in Running :
          (/\ tasks[i].pc \in {"report", "generic"}
           /\ Len(tasks') = Len(tasks)
           /\ tasks'[i].pc = "final"
           /\ since[tasks[i].chat].dispatched = 0
           /\ state[tasks[i].chat] = Form("profession")) =>
              state'[tasks[i].chat] = Form("profession")]_vars

====
